---- MODULE Spec2Model ----
(***************************************************************************)
(* dbt-goverage: reconciliation of a dbt manifest with a dbt catalog and   *)
(* the coverage report computed from the reconciled catalog (main.go).     *)
(*                                                                         *)
(* Go strings are sequences of one-character strings, so that ToLower,     *)
(* HasPrefix, ToSlash and Sprintf are computed character by character.     *)
(* A JSON value read through a type assertion is a record [t, v]: t says   *)
(* whether the key is absent, holds a string, or holds something else.     *)
(* A Go map ranged over is a set or a function here; the order of the      *)
(* range is an input of the action that models the loop.                   *)
(***************************************************************************)
EXTENDS Integers, Sequences, FiniteSets, Bags, TLC

VARIABLES
    host,            \* separator convention of the build: "unix" or "windows"
    manifestJSON,    \* the decoded manifest.json: [sources, nodes], sets of nodes
    catalogJSON,     \* the decoded catalog.json: [sources, nodes], key -> node
    covType,         \* --type
    modelPathFilter, \* --path_filter, split on commas
    pc,              \* position inside doCompute
    todo,            \* manifest nodes the range of ManifestFromNodes has yet to visit
    manifest,        \* *Manifest built by ManifestFromNodes
    loaded,          \* Catalog returned by loadFiles
    catalog,         \* Catalog held by doCompute (filtered when filters are given)
    detailed,        \* DetailedCoverageReport of the run
    report,          \* JSONReport of the run
    err,             \* error returned by doCompute ("" while there is none)
    prev             \* outcome of the previous run over the same documents

vars == <<host, manifestJSON, catalogJSON, covType, modelPathFilter, pc,
          todo, manifest, loaded, catalog, detailed, report, err, prev>>

---------------------------------------------------------------------------
(* Strings *)

Upper == <<"A", "B", "C", "D", "E", "F", "G", "H", "I", "J", "K", "L", "M",
           "N", "O", "P", "Q", "R", "S", "T", "U", "V", "W", "X", "Y", "Z">>
Lower == <<"a", "b", "c", "d", "e", "f", "g", "h", "i", "j", "k", "l", "m",
           "n", "o", "p", "q", "r", "s", "t", "u", "v", "w", "x", "y", "z">>

LowerChar(c) ==
    IF \E i \in DOMAIN Upper : Upper[i] = c
    THEN Lower[CHOOSE i \in DOMAIN Upper : Upper[i] = c]
    ELSE c

\* strings.ToLower
ToLower(s) == [i \in 1..Len(s) |-> LowerChar(s[i])]

\* strings.HasPrefix
HasPrefix(s, p) == Len(s) >= Len(p) /\ SubSeq(s, 1, Len(p)) = p

\* filepath.Separator of the build
Separator == IF host = "windows" THEN "\\" ELSE "/"

\* filepath.ToSlash: replaces the host separator by '/', a no-op where the
\* host separator is '/' already
ToSlash(p) ==
    IF Separator = "/" THEN p
    ELSE [i \in 1..Len(p) |-> IF p[i] = Separator THEN "/" ELSE p[i]]

\* fmt.Sprintf("%s.%s", a, b)
SprintfDot(a, b) == a \o <<".">> \o b

---------------------------------------------------------------------------
(* JSON values seen through type assertions *)

JStr(s)  == [t |-> "str", v |-> s]
JAbsent  == [t |-> "absent", v |-> <<>>]
JOther   == [t |-> "other", v |-> <<>>]     \* present, not a string

\* s, _ := x.(string)
AsString(j) == IF j.t = "str" THEN j.v ELSE <<>>

\* all the sequences that enumerate the set S once each: the orders in which
\* a range over a map holding S may run
RECURSIVE Perms(_)
Perms(S) ==
    IF S = {} THEN {<<>>}
    ELSE UNION {{<<x>> \o p : p \in Perms(S \ {x})} : x \in S}

---------------------------------------------------------------------------
(* Column, Table, Catalog *)

EmptyCatalog == [Tables |-> <<>>]

\* NewColumnFromNode keeping the name as the catalog spells it
NewColumnFromNodeVerbatim(colNode) ==
    [Name |-> colNode.name, Doc |-> FALSE, Test |-> FALSE]

\* NewColumnFromNode
NewColumnFromNode(colNode) ==
    [Name |-> ToLower(colNode.name), Doc |-> FALSE, Test |-> FALSE]

\* IsValidDoc taking any string, the empty one too, for a description
IsValidDocAnyString(doc) == doc.t = "str"

\* IsValidDoc: a description that is a non-empty string
IsValidDoc(doc) ==
    IF doc.t = "absent" THEN FALSE
    ELSE IF doc.t = "str" THEN doc.v # <<>>
    ELSE FALSE

\* IsValidTest
IsValidTest(tests) == Len(tests) > 0

---------------------------------------------------------------------------
(* Manifest *)

\* m[k] = v on a Go map
Put(m, k, v) == (k :> v) @@ m

\* v, ok := m[k]
Has(m, k) == k \in DOMAIN m

EmptyManifest ==
    [Sources |-> <<>>, Models |-> <<>>, Seeds |-> <<>>, Snapshots |-> <<>>,
     Tests |-> <<>>]

Relationships ==
    <<"r", "e", "l", "a", "t", "i", "o", "n", "s", "h", "i", "p", "s">>

\* the columns loop of normalizeTable run in the order `order`: every column
\* is renamed to its lowercased name and stored under it, a later column
\* replacing an earlier one of the same lowercased name
NormCols(order) ==
    LET names == {ToLower(order[i].name) : i \in DOMAIN order}
    IN  [nm \in names |->
            LET last == CHOOSE i \in DOMAIN order :
                            /\ ToLower(order[i].name) = nm
                            /\ \A j \in DOMAIN order :
                                   j > i => ToLower(order[j].name) # nm
            IN  [name |-> nm, description |-> order[last].description]]

\* normalizeTable
normalizeTable(table, order) ==
    [table EXCEPT
        !.columns = IF @.isMap
                    THEN [isMap |-> TRUE, cols |-> {}, byName |-> NormCols(order)]
                    ELSE @,
        !.original_file_path = IF @.t = "str" THEN JStr(ToSlash(@.v)) ELSE @,
        !.name = JStr(ToLower(SprintfDot(AsString(table.schema),
                                         AsString(table.name))))]

\* the table of a test node, taken at the head of depends_on.nodes whatever
\* the name of the test
TestTableIDFirst(node) == AsString(node.depends_on.nodes[1])

\* the table a test node is attributed to (lines 251-261)
TestTableID(node) ==
    LET nodesDep == node.depends_on.nodes
        testName == AsString(node.test_metadata.name)
    IN  IF testName = Relationships
        THEN AsString(nodesDep[Len(nodesDep)])
        ELSE AsString(nodesDep[1])

\* the column of a test node with kwargs.arg read before kwargs.column_name
TestColumnNameArgFirst(node) ==
    LET direct == IF node.column_name.t = "str" THEN node.column_name.v ELSE <<>>
        kwargs == node.test_metadata.kwargs
        fromKw == IF kwargs.column_name.t = "str" THEN kwargs.column_name.v
                  ELSE <<>>
        fromArg == IF kwargs.arg.t = "str" THEN kwargs.arg.v ELSE <<>>
    IN  IF direct # <<>> THEN direct
        ELSE IF ~kwargs.isMap THEN <<>>
        ELSE IF fromArg # <<>> THEN fromArg
        ELSE fromKw

\* the column a test node is attributed to, "" when none (lines 262-283)
TestColumnName(node) ==
    LET direct == IF node.column_name.t = "str" THEN node.column_name.v ELSE <<>>
        kwargs == node.test_metadata.kwargs
        fromKw == IF kwargs.column_name.t = "str" THEN kwargs.column_name.v
                  ELSE <<>>
        fromArg == IF kwargs.arg.t = "str" THEN kwargs.arg.v ELSE <<>>
    IN  IF direct # <<>> THEN direct
        ELSE IF ~kwargs.isMap THEN <<>>
        ELSE IF fromKw # <<>> THEN fromKw
        ELSE fromArg

\* the guards under which a test node is skipped (lines 236-250, 284-286)
TestIsRecorded(node) ==
    /\ node.test_metadata.t # "absent"
    /\ node.depends_on.isMap
    /\ node.depends_on.isList
    /\ Len(node.depends_on.nodes) > 0
    /\ node.test_metadata.t = "map"
    /\ TestColumnName(node) # <<>>

\* case "test" of ManifestFromNodes
AddTest(tests, node) ==
    IF ~TestIsRecorded(node) THEN tests
    ELSE LET tableID == TestTableID(node)
             columnName == ToLower(TestColumnName(node))
             ofTable == IF Has(tests, tableID) THEN tests[tableID] ELSE <<>>
             ofColumn == IF Has(ofTable, columnName) THEN ofTable[columnName]
                         ELSE <<>>
         IN  Put(tests, tableID, Put(ofTable, columnName, Append(ofColumn, node)))

\* one iteration of the loop of ManifestFromNodes
ManifestStep(m, node, order) ==
    LET id == AsString(node.unique_id)
    IN  IF ~node.isMap THEN m
        ELSE IF node.resource_type = "source"
        THEN [m EXCEPT !.Sources = Put(@, id, normalizeTable(node, order))]
        ELSE IF node.resource_type = "model"
        THEN [m EXCEPT !.Models = Put(@, id, normalizeTable(node, order))]
        ELSE IF node.resource_type = "seed"
        THEN [m EXCEPT !.Seeds = Put(@, id, normalizeTable(node, order))]
        ELSE IF node.resource_type = "snapshot"
        THEN [m EXCEPT !.Snapshots = Put(@, id, normalizeTable(node, order))]
        ELSE IF node.resource_type = "test"
        THEN [m EXCEPT !.Tests = AddTest(@, node)]
        ELSE m

\* the merge of loadManifest: the values of "sources" and of "nodes"
MergedNodes(doc) == doc.sources \cup doc.nodes

\* Manifest.GetTable
GetTable(m, tableID) ==
    LET candidates ==
            (IF Has(m.Sources, tableID) THEN <<m.Sources[tableID]>> ELSE <<>>)
         \o (IF Has(m.Models, tableID) THEN <<m.Models[tableID]>> ELSE <<>>)
         \o (IF Has(m.Seeds, tableID) THEN <<m.Seeds[tableID]>> ELSE <<>>)
         \o (IF Has(m.Snapshots, tableID) THEN <<m.Snapshots[tableID]>> ELSE <<>>)
    IN  IF Len(candidates) = 0
        THEN [err |-> "table non trouvee", node |-> <<>>]
        ELSE IF Len(candidates) > 1
        THEN [err |-> "unique_id en double", node |-> <<>>]
        ELSE [err |-> "", node |-> candidates[1]]

---------------------------------------------------------------------------
(* Catalog *)

TestDot == <<"t", "e", "s", "t", ".">>

\* the columns loop of NewTableFromNode (lines 129-137)
TableColumns(node) ==
    LET made == {NewColumnFromNode(c) : c \in node.columns.cols}
    IN  IF ~node.columns.isMap THEN <<>>
        ELSE [nm \in {col.Name : col \in made} |->
                 CHOOSE col \in made : col.Name = nm]

\* NewTableFromNode building the name from the schema and the name of the
\* manifest node once more
NewTableFromNodeRenaming(node, m) ==
    LET uniqueID == node.unique_id.v
        found == GetTable(m, uniqueID)
        manifestTable == found.node
    IN  IF node.unique_id.t # "str"
        THEN [err |-> "unique_id absent ou invalide", table |-> <<>>]
        ELSE IF found.err # ""
        THEN [err |-> "unique_id non trouve dans le manifest", table |-> <<>>]
        ELSE [err |-> "",
              table |-> [UniqueID |-> uniqueID,
                         Name |-> ToLower(SprintfDot(AsString(manifestTable.schema),
                                                     manifestTable.name.v)),
                         OriginalFilePath |->
                             AsString(manifestTable.original_file_path),
                         Columns |-> TableColumns(node)]]

\* NewTableFromNode
NewTableFromNode(node, m) ==
    LET uniqueID == node.unique_id.v
        found == GetTable(m, uniqueID)
        manifestTable == found.node
    IN  IF node.unique_id.t # "str"
        THEN [err |-> "unique_id absent ou invalide", table |-> <<>>]
        ELSE IF found.err # ""
        THEN [err |-> "unique_id non trouve dans le manifest", table |-> <<>>]
        ELSE [err |-> "",
              table |-> [UniqueID |-> uniqueID,
                         Name |-> ToLower(manifestTable.name.v),
                         OriginalFilePath |->
                             AsString(manifestTable.original_file_path),
                         Columns |-> TableColumns(node)]]

\* CatalogFromNodes from the i-th node on, `tables` holding the tables of
\* the nodes before it
RECURSIVE CatalogFrom(_, _, _, _)
CatalogFrom(nodes, i, tables, m) ==
    IF i > Len(nodes) THEN [err |-> "", catalog |-> [Tables |-> tables]]
    ELSE IF ~nodes[i].isMap THEN CatalogFrom(nodes, i + 1, tables, m)
    ELSE LET made == NewTableFromNode(nodes[i], m)
         IN  IF made.err # ""
             THEN [err |-> made.err, catalog |-> EmptyCatalog]
             ELSE CatalogFrom(nodes, i + 1,
                              Put(tables, made.table.UniqueID, made.table), m)

\* CatalogFromNodes
CatalogFromNodes(nodes, m) == CatalogFrom(nodes, 1, <<>>, m)

\* the nodes of one group of catalog.json in the order `keys`, the
\* identifiers prefixed "test." left out (lines 543-550)
RECURSIVE GroupNodes(_, _)
GroupNodes(group, keys) ==
    IF keys = <<>> THEN <<>>
    ELSE (IF HasPrefix(Head(keys), TestDot) THEN <<>>
          ELSE <<group[Head(keys)]>>) \o GroupNodes(group, Tail(keys))

\* catalogNodes of loadCatalog: "sources" first, then "nodes"
CatalogNodes(doc, srcKeys, nodeKeys) ==
    GroupNodes(doc.sources, srcKeys) \o GroupNodes(doc.nodes, nodeKeys)

\* the doc and test flags of one column (lines 588-607 of loadFiles)
AnnotateColumn(m, tableID, colName, col) ==
    LET hasTable == \/ Has(m.Sources, tableID) \/ Has(m.Models, tableID)
                    \/ Has(m.Seeds, tableID) \/ Has(m.Snapshots, tableID)
        manifestTable ==
            IF Has(m.Sources, tableID) THEN m.Sources[tableID]
            ELSE IF Has(m.Models, tableID) THEN m.Models[tableID]
            ELSE IF Has(m.Seeds, tableID) THEN m.Seeds[tableID]
            ELSE m.Snapshots[tableID]
        hasColInfo == /\ hasTable
                      /\ manifestTable.columns.isMap
                      /\ Has(manifestTable.columns.byName, colName)
        desc == IF hasColInfo
                THEN manifestTable.columns.byName[colName].description
                ELSE JAbsent
        testsForCol == IF Has(m.Tests, tableID) /\ Has(m.Tests[tableID], colName)
                       THEN m.Tests[tableID][colName]
                       ELSE <<>>
    IN  [col EXCEPT !.Doc = IsValidDoc(desc), !.Test = IsValidTest(testsForCol)]

\* the update loop of loadFiles (lines 570-610)
AnnotateCatalog(cat, m) ==
    [Tables |->
        [id \in DOMAIN cat.Tables |->
            [cat.Tables[id] EXCEPT
                !.Columns = [c \in DOMAIN @ |-> AnnotateColumn(m, id, c, @[c])]]]]

\* Catalog.FilterTables trying the first prefix only
FilterTablesFirstOnly(cat, filters) ==
    LET keep == {id \in DOMAIN cat.Tables :
                    /\ filters # <<>>
                    /\ HasPrefix(ToSlash(cat.Tables[id].OriginalFilePath),
                                 ToSlash(filters[1]))}
    IN  [Tables |-> [id \in keep |-> cat.Tables[id]]]

\* Catalog.FilterTables
FilterTables(cat, filters) ==
    LET keep == {id \in DOMAIN cat.Tables :
                    \E i \in DOMAIN filters :
                        HasPrefix(ToSlash(cat.Tables[id].OriginalFilePath),
                                  ToSlash(filters[i]))}
    IN  [Tables |-> [id \in keep |-> cat.Tables[id]]]

---------------------------------------------------------------------------
(* Reports *)

RECURSIVE GCD(_, _)
GCD(a, b) == IF b = 0 THEN a ELSE GCD(b, a % b)

\* float64(a) / float64(b) for counts a, b >= 0: the quotient as a fraction
\* in lowest terms, +Inf for a > 0 = b, and NaN for 0 / 0
NaN == [kind |-> "NaN", num |-> 0, den |-> 0]
FloatDiv(a, b) ==
    IF b = 0
    THEN IF a = 0 THEN NaN ELSE [kind |-> "Inf", num |-> 1, den |-> 0]
    ELSE [kind |-> "num", num |-> a \div GCD(a, b), den |-> b \div GCD(a, b)]

\* the float64 constant 0.0
FloatZero == FloatDiv(0, 1)

\* the bag holding f[x] for every x of the finite set S: a Go slice appended
\* to once per entry of a ranged-over map, its order left out
RECURSIVE BagOver(_, _)
BagOver(f, S) ==
    IF S = {} THEN EmptyBag
    ELSE LET x == CHOOSE y \in S : TRUE
         IN  SetToBag({f[x]}) (+) BagOver(f, S \ {x})

\* the sum of f[x].fld over x in S
RECURSIVE SumOver(_, _, _)
SumOver(f, S, fld) ==
    IF S = {} THEN 0
    ELSE LET x == CHOOSE y \in S : TRUE
         IN  f[x][fld] + SumOver(f, S \ {x}, fld)

\* colCovered of one column (lines 353-362, 405-414)
ColCovered(col, ct) ==
    IF ct = "doc" THEN (IF col.Doc THEN 1 ELSE 0)
    ELSE IF ct = "test" THEN (IF col.Test THEN 1 ELSE 0)
    ELSE 0

\* the ColumnReport of one column (lines 351-368)
ColumnReportOf(col, ct) ==
    [name |-> col.Name, covered |-> ColCovered(col, ct), total |-> 1,
     coverage |-> FloatDiv(ColCovered(col, ct), 1)]

\* the TableReport of one table (lines 347-378)
TableReportOf(table, ct) ==
    LET cols == [c \in DOMAIN table.Columns |->
                    ColumnReportOf(table.Columns[c], ct)]
        tableCovered == SumOver(cols, DOMAIN cols, "covered")
        tableTotal == SumOver(cols, DOMAIN cols, "total")
    IN  [name |-> table.Name, covered |-> tableCovered, total |-> tableTotal,
         coverage |-> FloatDiv(tableCovered, tableTotal),
         columns |-> BagOver(cols, DOMAIN cols)]

\* computeJSONReport whose global total counts the tables, not their columns
computeJSONReportCountingTables(cat, ct) ==
    LET tables == [id \in DOMAIN cat.Tables |-> TableReportOf(cat.Tables[id], ct)]
        globalCovered == SumOver(tables, DOMAIN tables, "covered")
        globalTotal == Cardinality(DOMAIN tables)
    IN  [cov_type |-> ct, covered |-> globalCovered, total |-> globalTotal,
         coverage |-> IF globalTotal > 0 THEN FloatDiv(globalCovered, globalTotal)
                      ELSE FloatZero,
         tables |-> BagOver(tables, DOMAIN tables)]

\* computeJSONReport
computeJSONReport(cat, ct) ==
    LET tables == [id \in DOMAIN cat.Tables |-> TableReportOf(cat.Tables[id], ct)]
        globalCovered == SumOver(tables, DOMAIN tables, "covered")
        globalTotal == SumOver(tables, DOMAIN tables, "total")
    IN  [cov_type |-> ct, covered |-> globalCovered, total |-> globalTotal,
         coverage |-> IF globalTotal > 0 THEN FloatDiv(globalCovered, globalTotal)
                      ELSE FloatZero,
         tables |-> BagOver(tables, DOMAIN tables)]

\* the TableCoverage of one table counting the documented columns whatever
\* the coverage type
TableCoverageOfDocOnly(table, ct) ==
    LET cov == [c \in DOMAIN table.Columns |->
                   [covered |-> ColCovered(table.Columns[c], "doc"), total |-> 1]]
    IN  [ModelName |-> table.Name,
         Covered |-> SumOver(cov, DOMAIN cov, "covered"),
         Total |-> SumOver(cov, DOMAIN cov, "total")]

\* the TableCoverage of one table (lines 401-420)
TableCoverageOf(table, ct) ==
    LET cov == [c \in DOMAIN table.Columns |->
                   [covered |-> ColCovered(table.Columns[c], ct), total |-> 1]]
    IN  [ModelName |-> table.Name,
         Covered |-> SumOver(cov, DOMAIN cov, "covered"),
         Total |-> SumOver(cov, DOMAIN cov, "total")]

\* computeDetailedCoverage
computeDetailedCoverage(cat, ct) ==
    LET reports == [id \in DOMAIN cat.Tables |-> TableCoverageOf(cat.Tables[id], ct)]
    IN  [TableReports |-> BagOver(reports, DOMAIN reports),
         TotalCovered |-> SumOver(reports, DOMAIN reports, "Covered"),
         TotalColumns |-> SumOver(reports, DOMAIN reports, "Total"),
         TableCount |-> Cardinality(DOMAIN cat.Tables),
         CovType |-> ct]

\* json.MarshalIndent refuses a report holding a NaN or an infinity
Marshals(rep) ==
    /\ rep.coverage.kind = "num"
    /\ \A t \in BagToSet(rep.tables) :
          /\ t.coverage.kind = "num"
          /\ \A c \in BagToSet(t.columns) : c.coverage.kind = "num"

NoReport ==
    [cov_type |-> "", covered |-> 0, total |-> 0, coverage |-> FloatZero,
     tables |-> EmptyBag]

NoDetailed ==
    [TableReports |-> EmptyBag, TotalCovered |-> 0, TotalColumns |-> 0,
     TableCount |-> 0, CovType |-> ""]

NoPrev == [has |-> FALSE, report |-> NoReport, err |-> ""]

---------------------------------------------------------------------------
(* doCompute, one action per step *)

\* loadManifest up to its call of ManifestFromNodes (lines 509-520)
LoadManifest ==
    /\ pc = "loadManifest"
    /\ todo' = MergedNodes(manifestJSON)
    /\ manifest' = EmptyManifest
    /\ pc' = "manifestFromNodes"
    /\ UNCHANGED <<host, manifestJSON, catalogJSON, covType, modelPathFilter,
                   loaded, catalog, detailed, report, err, prev>>

\* one iteration of the range of ManifestFromNodes: the range visits the
\* nodes in any order, and normalizeTable the columns of a node in any order
ManifestRange ==
    /\ pc = "manifestFromNodes"
    /\ \E node \in todo :
       \E order \in Perms(node.columns.cols) :
          /\ manifest' = ManifestStep(manifest, node, order)
          /\ todo' = todo \ {node}
    /\ UNCHANGED <<host, manifestJSON, catalogJSON, covType, modelPathFilter, pc,
                   loaded, catalog, detailed, report, err, prev>>

\* the return of ManifestFromNodes (lines 295-301)
ManifestReturn ==
    /\ pc = "manifestFromNodes"
    /\ todo = {}
    /\ pc' = "loadCatalog"
    /\ UNCHANGED <<host, manifestJSON, catalogJSON, covType, modelPathFilter,
                   todo, manifest, loaded, catalog, detailed, report, err, prev>>

\* loadCatalog: CatalogFromNodes over the nodes of catalog.json, for some
\* order of each range; its error is the error of loadFiles and of doCompute
LoadCatalog ==
    /\ pc = "loadCatalog"
    /\ \E srcKeys \in Perms(DOMAIN catalogJSON.sources) :
       \E nodeKeys \in Perms(DOMAIN catalogJSON.nodes) :
          LET got == CatalogFromNodes(
                         CatalogNodes(catalogJSON, srcKeys, nodeKeys), manifest)
          IN  /\ loaded' = got.catalog
              /\ err' = got.err
              /\ pc' = IF got.err # "" THEN "done" ELSE "annotate"
    /\ UNCHANGED <<host, manifestJSON, catalogJSON, covType, modelPathFilter,
                   todo, manifest, catalog, detailed, report, prev>>

\* the rest of loadFiles: the doc and test flags of every column
Annotate ==
    /\ pc = "annotate"
    /\ loaded' = AnnotateCatalog(loaded, manifest)
    /\ pc' = "filter"
    /\ UNCHANGED <<host, manifestJSON, catalogJSON, covType, modelPathFilter,
                   todo, manifest, catalog, detailed, report, err, prev>>

\* lines 628-633 of doCompute failing on an empty catalog whether or not a
\* prefix was given
FilterFailingOnEmpty ==
    /\ pc = "filter"
    /\ LET filtered == IF Len(modelPathFilter) > 0
                       THEN FilterTables(loaded, modelPathFilter)
                       ELSE loaded
           empty == DOMAIN filtered.Tables = {}
       IN  /\ catalog' = filtered
           /\ err' = IF empty THEN "aucune table apres filtrage" ELSE err
           /\ pc' = IF empty THEN "done" ELSE "detailed"
    /\ UNCHANGED <<host, manifestJSON, catalogJSON, covType, modelPathFilter,
                   todo, manifest, loaded, detailed, report, prev>>

\* lines 628-633 of doCompute
Filter ==
    /\ pc = "filter"
    /\ LET filtered == IF Len(modelPathFilter) > 0
                       THEN FilterTables(loaded, modelPathFilter)
                       ELSE loaded
           empty == Len(modelPathFilter) > 0 /\ DOMAIN filtered.Tables = {}
       IN  /\ catalog' = filtered
           /\ err' = IF empty THEN "aucune table apres filtrage" ELSE err
           /\ pc' = IF empty THEN "done" ELSE "detailed"
    /\ UNCHANGED <<host, manifestJSON, catalogJSON, covType, modelPathFilter,
                   todo, manifest, loaded, detailed, report, prev>>

\* lines 635-636 of doCompute
ComputeDetailed ==
    /\ pc = "detailed"
    /\ detailed' = computeDetailedCoverage(catalog, covType)
    /\ pc' = "json"
    /\ UNCHANGED <<host, manifestJSON, catalogJSON, covType, modelPathFilter,
                   todo, manifest, loaded, catalog, report, err, prev>>

\* line 638 of doCompute
ComputeJSON ==
    /\ pc = "json"
    /\ report' = computeJSONReport(catalog, covType)
    /\ pc' = "write"
    /\ UNCHANGED <<host, manifestJSON, catalogJSON, covType, modelPathFilter,
                   todo, manifest, loaded, catalog, detailed, err, prev>>

\* writeCoverageReport (lines 639-642 of doCompute)
WriteReport ==
    /\ pc = "write"
    /\ err' = IF Marshals(report) THEN err ELSE "json: unsupported value"
    /\ pc' = "done"
    /\ UNCHANGED <<host, manifestJSON, catalogJSON, covType, modelPathFilter,
                   todo, manifest, loaded, catalog, detailed, report, prev>>

\* the program is run once more over the same documents and flags
Rerun ==
    /\ pc = "done"
    /\ ~prev.has
    /\ prev' = [has |-> TRUE, report |-> report, err |-> err]
    /\ manifest' = EmptyManifest
    /\ loaded' = EmptyCatalog
    /\ catalog' = EmptyCatalog
    /\ detailed' = NoDetailed
    /\ report' = NoReport
    /\ err' = ""
    /\ pc' = "loadManifest"
    /\ UNCHANGED <<host, manifestJSON, catalogJSON, covType, modelPathFilter,
                   todo>>

Next ==
    \/ LoadManifest
    \/ ManifestRange
    \/ ManifestReturn
    \/ LoadCatalog
    \/ Annotate
    \/ Filter
    \/ ComputeDetailed
    \/ ComputeJSON
    \/ WriteReport
    \/ Rerun

\* the state in which main calls doCompute on the documents mDoc and cDoc
InitOf(mDocs, cDocs, covTypes, filters, hosts) ==
    /\ host \in hosts
    /\ manifestJSON \in mDocs
    /\ catalogJSON \in cDocs
    /\ covType \in covTypes
    /\ modelPathFilter \in filters
    /\ pc = "loadManifest"
    /\ todo = {}
    /\ manifest = EmptyManifest
    /\ loaded = EmptyCatalog
    /\ catalog = EmptyCatalog
    /\ detailed = NoDetailed
    /\ report = NoReport
    /\ err = ""
    /\ prev = NoPrev

---------------------------------------------------------------------------
(* The documents the runs are checked on *)

MaxManifestNodes == 3
MaxCatalogNodes == 2

IdA == <<"m", ".", "a">>
IdB == <<"m", ".", "b">>
IdE == <<"m", ".", "e">>
IdTestA == <<"t", "e", "s", "t", ".", "a">>

NoKwargs == [isMap |-> FALSE, column_name |-> JAbsent, arg |-> JAbsent]
NoTestMetadata == [t |-> "absent", name |-> JAbsent, kwargs |-> NoKwargs]
NoDependsOn == [isMap |-> FALSE, isList |-> FALSE, nodes |-> <<>>]

\* a node of manifest.json that declares a table; cols is its "columns"
TableNode(resourceType, uniqueID, schema, name, path, cols) ==
    [isMap |-> TRUE, resource_type |-> resourceType, unique_id |-> uniqueID,
     schema |-> schema, name |-> name, original_file_path |-> path,
     columns |-> [isMap |-> TRUE, cols |-> cols, byName |-> <<>>],
     test_metadata |-> NoTestMetadata, depends_on |-> NoDependsOn,
     column_name |-> JAbsent]

\* a node of manifest.json that declares a test
TestNode(uniqueID, testMetadata, dependsOn, columnName) ==
    [isMap |-> TRUE, resource_type |-> "test", unique_id |-> uniqueID,
     schema |-> JAbsent, name |-> JAbsent, original_file_path |-> JAbsent,
     columns |-> [isMap |-> FALSE, cols |-> {}, byName |-> <<>>],
     test_metadata |-> testMetadata,
     depends_on |-> dependsOn, column_name |-> columnName]

TestMetadata(name, kwargs) == [t |-> "map", name |-> JStr(name), kwargs |-> kwargs]
Kwargs(columnName, arg) == [isMap |-> TRUE, column_name |-> columnName, arg |-> arg]
DependsOn(ids) == [isMap |-> TRUE, isList |-> TRUE, nodes |-> [i \in DOMAIN ids |-> JStr(ids[i])]]

Col(name, description) == [name |-> name, description |-> description]

\* a node of catalog.json; its "metadata" names the relation as the database
\* does, and no function of the program reads it
CatalogNode(uniqueID, colNames) ==
    [isMap |-> TRUE, unique_id |-> uniqueID,
     metadata |-> [schema |-> JStr(<<"R", "A", "W">>), name |-> JStr(<<"V">>)],
     columns |-> [isMap |-> TRUE, cols |-> {[name |-> c] : c \in colNames}]]

ModelA ==
    TableNode("model", JStr(IdA), JStr(<<"D", "e", "v">>), JStr(<<"U">>),
              JStr(<<"m", "/", "a">>),
              {Col(<<"I", "D">>, JStr(<<"p", "k">>)), Col(<<"i", "d">>, JStr(<<>>))})
SourceA ==
    TableNode("source", JStr(IdA), JStr(<<"r", "a", "w">>), JStr(<<"U">>),
              JAbsent, {Col(<<"I", "d">>, JAbsent)})
ModelB ==
    TableNode("model", JStr(IdB), JStr(<<"d", "e", "v">>), JStr(<<"O">>),
              JStr(<<"m", "/", "b">>),
              {Col(<<"X">>, JStr(<<"d">>)), Col(<<"w">>, JStr(<<"d">>))})
SeedNoID ==
    TableNode("seed", JAbsent, JStr(<<"d", "e", "v">>), JStr(<<"s">>),
              JStr(<<"s", "/", "s">>), {Col(<<"i", "d">>, JStr(<<"k">>))})
TestNotNullA ==
    TestNode(JStr(<<"t", "1">>), TestMetadata(<<"n", "n">>, NoKwargs),
             DependsOn(<<IdA>>), JStr(<<"I", "D">>))
TestUniqueA ==
    TestNode(JStr(<<"t", "2">>), TestMetadata(<<"u">>, NoKwargs),
             DependsOn(<<IdA>>), JStr(<<"i", "d">>))
TestRelationships ==
    TestNode(JStr(<<"t", "3">>), TestMetadata(Relationships, NoKwargs),
             DependsOn(<<IdA, IdB>>), JStr(<<"W">>))
TestArgB ==
    TestNode(JStr(<<"t", "4">>),
             TestMetadata(<<"u">>, Kwargs(JAbsent, JStr(<<"y">>))),
             DependsOn(<<IdB>>), JAbsent)
TestNoColumn ==
    TestNode(JStr(<<"t", "5">>), TestMetadata(<<"u">>, Kwargs(JStr(<<>>), JOther)),
             DependsOn(<<IdA>>), JAbsent)

ManifestNodeUniverse ==
    {ModelA, SourceA, ModelB, SeedNoID, TestNotNullA, TestUniqueA,
     TestRelationships}

\* manifest.json holding the nodes of N: the sources under "sources", the
\* rest under "nodes"
ManifestDoc(N) ==
    [sources |-> {n \in N : n.resource_type = "source"},
     nodes |-> {n \in N : n.resource_type # "source"}]

ManifestDocs ==
    {ManifestDoc(N) : N \in {M \in SUBSET ManifestNodeUniverse :
                                Cardinality(M) <= MaxManifestNodes}}

\* the nodes catalog.json may hold under each identifier
CatalogChoices ==
    (IdA :> {CatalogNode(JStr(IdA), {<<"I", "D">>, <<"Z">>}),
             CatalogNode(JStr(IdA), {})})
    @@ (IdB :> {CatalogNode(JStr(IdB), {<<"x">>, <<"Y">>})})
    @@ (IdTestA :> {CatalogNode(JStr(IdTestA), {<<"c">>})})
    @@ (IdE :> {CatalogNode(JAbsent, {<<"c">>}),
                CatalogNode(JStr(<<>>), {<<"I", "D">>})})

\* catalog.json holding the entries of the function e: the entry of IdA
\* under "sources", the rest under "nodes"
CatalogDoc(e) ==
    [sources |-> [k \in DOMAIN e \cap {IdA} |-> e[k]],
     nodes |-> [k \in DOMAIN e \ {IdA} |-> e[k]]]

CatalogEntries(choices, maxNodes) ==
    UNION {{e \in [K -> UNION {choices[k] : k \in K}] :
               \A k \in K : e[k] \in choices[k]} :
           K \in {L \in SUBSET DOMAIN choices : Cardinality(L) <= maxNodes}}

CatalogDocs == {CatalogDoc(e) : e \in CatalogEntries(CatalogChoices, MaxCatalogNodes)}

Init == InitOf(ManifestDocs, CatalogDocs, {"doc", "test"}, {<<>>}, {"unix"})

Spec == Init /\ [][Next]_vars

---------------------------------------------------------------------------
(* The documents the attribution of tests is checked on: two tables and one
   test node, of every shape the guards of ManifestFromNodes tell apart *)

MaxDeps == 2

PlainTable(id, path) ==
    TableNode("model", JStr(id), JStr(<<"d", "e", "v">>), JStr(<<"t">>), path,
              {Col(<<"c">>, JAbsent)})

TestMetadatas ==
    {NoTestMetadata, [t |-> "other", name |-> JAbsent, kwargs |-> NoKwargs]}
    \cup {TestMetadata(name, kwargs) :
            name \in {Relationships, <<"u">>},
            kwargs \in {NoKwargs}
                       \cup {Kwargs(c, a) :
                               c \in {JAbsent, JOther, JStr(<<>>), JStr(<<"K">>)},
                               a \in {JAbsent, JOther, JStr(<<"G">>)}}}

DependsOns ==
    {NoDependsOn, [isMap |-> TRUE, isList |-> FALSE, nodes |-> <<>>]}
    \cup {DependsOn(ids) : ids \in UNION {[1..k -> {IdA, IdB}] : k \in 0..MaxDeps}}

TestNodes ==
    {TestNode(JStr(<<"t", "1">>), meta, deps, col) :
        meta \in TestMetadatas, deps \in DependsOns,
        col \in {JAbsent, JOther, JStr(<<>>), JStr(<<"C">>)}}

TestedColumns == {<<"C">>, <<"K">>, <<"G">>}

InitTests ==
    InitOf({ManifestDoc({PlainTable(IdA, JAbsent), PlainTable(IdB, JAbsent), n}) :
               n \in TestNodes},
           {CatalogDoc((IdA :> CatalogNode(JStr(IdA), TestedColumns))
                       @@ (IdB :> CatalogNode(JStr(IdB), TestedColumns)))},
           {"test"}, {<<>>}, {"unix"})

SpecTests == InitTests /\ [][Next]_vars

---------------------------------------------------------------------------
(* The documents and flags the path filter is checked on *)

MaxFilters == 2

OriginPaths ==
    {JAbsent, JStr(<<"m", "/", "r", "/", "a">>), JStr(<<"m", "/", "s", "/", "b">>),
     JStr(<<"m", "\\", "r", "\\", "a">>)}

Prefixes == {<<>>, <<"m", "/", "r">>, <<"m", "/", "s">>, <<"m", "\\", "r">>}

InitFilter ==
    InitOf({ManifestDoc({PlainTable(IdA, pa), PlainTable(IdB, pb)}) :
               pa \in OriginPaths, pb \in OriginPaths},
           {CatalogDoc((IdA :> CatalogNode(JStr(IdA), {<<"c">>}))
                       @@ (IdB :> CatalogNode(JStr(IdB), {<<"c">>}))),
            CatalogDoc(<<>>)},
           {"doc"},
           UNION {[1..k -> Prefixes] : k \in 0..MaxFilters},
           {"unix", "windows"})

SpecFilter == InitFilter /\ [][Next]_vars

---------------------------------------------------------------------------
(* What the claims are stated over *)

\* s starts with p, character by character
StartsWith(s, p) == Len(p) <= Len(s) /\ \A i \in 1..Len(p) : s[i] = p[i]

TableKinds == {"source", "model", "seed", "snapshot"}

\* the partitions of the manifest that declare a table under the identifier
KindsDeclaring(id) ==
    {n.resource_type : n \in {x \in MergedNodes(manifestJSON) :
                                 /\ x.resource_type \in TableKinds
                                 /\ AsString(x.unique_id) = id}}

\* the nodes of catalog.json whose identifier is not prefixed "test."
NonTestNodes ==
    {catalogJSON.sources[k] :
        k \in {x \in DOMAIN catalogJSON.sources : ~StartsWith(x, TestDot)}}
    \cup {catalogJSON.nodes[k] :
        k \in {x \in DOMAIN catalogJSON.nodes : ~StartsWith(x, TestDot)}}

\* loadCatalog of the current run has returned
CatalogBuilt == pc \notin {"loadManifest", "manifestFromNodes", "loadCatalog"}

\* loadFiles of the current run has returned a catalog
FilesLoaded ==
    \/ pc \in {"filter", "detailed", "json", "write"}
    \/ (pc = "done" /\ err \in {"", "aucune table apres filtrage",
                                 "json: unsupported value"})

\* computeJSONReport of the current run has returned
Reported == pc = "write" \/ (pc = "done" /\ report # NoReport)

\* C1: every table of the report has 0 <= coverage <= 1, and coverage is the
\* number 0 when the table has no column
C1_TableCoverageIsDefined ==
    \A t \in BagToSet(report.tables) :
        /\ t.coverage.kind = "num"
        /\ 0 <= t.coverage.num
        /\ t.coverage.num <= t.coverage.den
        /\ (t.total = 0 => t.coverage = FloatZero)

\* C2: when the only fault of the documents is an identifier declared in two
\* partitions of the manifest and named by a catalog node, the run fails and
\* the failure says "duplicate"
C2_DuplicateIsReported ==
    (/\ CatalogBuilt
     /\ \A n \in NonTestNodes :
           n.unique_id.t = "str" /\ KindsDeclaring(n.unique_id.v) # {}
     /\ \E n \in NonTestNodes : Cardinality(KindsDeclaring(n.unique_id.v)) > 1)
    => err = "unique_id en double"

\* C3: a second run over the same documents and flags ends with the report
\* of the first run, whatever the orders of the ranges over the maps
C3_RerunYieldsSameReport ==
    (prev.has /\ pc = "done") => report = prev.report

\* C9: when a catalog node that is not a test has a unique_id that is
\* missing, not a string or empty, or that the manifest does not resolve,
\* the catalog build fails and leaves no table
C9_AllOrNothing ==
    (/\ CatalogBuilt
     /\ \E n \in NonTestNodes :
           \/ n.unique_id.t # "str"
           \/ n.unique_id.v = <<>>
           \/ Cardinality(KindsDeclaring(n.unique_id.v)) # 1)
    => (err # "" /\ loaded = EmptyCatalog /\ catalog = EmptyCatalog)

\* the test nodes of the manifest document
RawTests == {n \in MergedNodes(manifestJSON) : n.resource_type = "test"}

\* the table nodes the manifest document declares under the identifier
RawTables(id) ==
    {n \in MergedNodes(manifestJSON) :
        n.resource_type \in TableKinds /\ AsString(n.unique_id) = id}

\* a test node that has test_metadata and a non-empty depends_on.nodes
IsColumnTest(n) ==
    /\ n.test_metadata.t = "map"
    /\ n.depends_on.isMap /\ n.depends_on.isList
    /\ n.depends_on.nodes # <<>>

\* the entry of depends_on.nodes a column test belongs to: the last one for
\* "relationships", the first one for any other name
AttributedTable(n) ==
    IF n.test_metadata.name = JStr(Relationships)
    THEN n.depends_on.nodes[Len(n.depends_on.nodes)].v
    ELSE n.depends_on.nodes[1].v

\* the places a test node may name its column at, in priority order
ColumnCandidates(n) ==
    <<n.column_name>>
    \o (IF n.test_metadata.kwargs.isMap
        THEN <<n.test_metadata.kwargs.column_name, n.test_metadata.kwargs.arg>>
        ELSE <<>>)

NonEmptyString(j) == j.t = "str" /\ j.v # <<>>

HasColumn(n) == \E i \in DOMAIN ColumnCandidates(n) : NonEmptyString(ColumnCandidates(n)[i])

\* the first candidate that is a non-empty string
AttributedColumn(n) ==
    LET cands == ColumnCandidates(n)
        first == CHOOSE i \in DOMAIN cands :
                     /\ NonEmptyString(cands[i])
                     /\ \A j \in 1..(i - 1) : ~NonEmptyString(cands[j])
    IN  cands[first].v

\* the (table, column) keys of the test index that hold the node
KeysHolding(n) ==
    {k \in UNION {{<<t, c>> : c \in DOMAIN manifest.Tests[t]} :
                     t \in DOMAIN manifest.Tests} :
        \E i \in DOMAIN manifest.Tests[k[1]][k[2]] :
            manifest.Tests[k[1]][k[2]][i] = n}

\* the partitions of the manifest index
Partitions ==
    {manifest.Sources, manifest.Models, manifest.Seeds, manifest.Snapshots}

\* the manifest index holds a non-empty description for (table, column)
IndexDocuments(id, c) ==
    \E p \in Partitions :
        /\ id \in DOMAIN p
        /\ p[id].columns.isMap
        /\ c \in DOMAIN p[id].columns.byName
        /\ NonEmptyString(p[id].columns.byName[c].description)

\* the descriptions the manifest document gives, under any spelling of the
\* column name, for (table, column)
RawDescriptions(id, c) ==
    {col.description :
        col \in {x \in UNION {n.columns.cols : n \in RawTables(id)} :
                    ToLower(x.name) = c}}

\* the sum of fld over the entries of a bag, counted with multiplicity
RECURSIVE BagSum(_, _)
BagSum(B, fld) ==
    IF BagToSet(B) = {} THEN 0
    ELSE LET e == CHOOSE x \in BagToSet(B) : TRUE
         IN  CopiesIn(e, B) * e[fld]
             + BagSum([x \in BagToSet(B) \ {e} |-> B[x]], fld)

\* C6: after loadFiles a column is documented iff the manifest holds a
\* non-empty description for (table, lowercased name) and tested iff a test
\* declaration is attributed to that key, whatever the spelling of the name
\* on either side; in the report every column counts total 1 and covered 0
\* or 1 by its flag, however many tests it has
C6_ColumnFlags ==
    /\ FilesLoaded =>
          \A id \in DOMAIN loaded.Tables :
          \A c \in DOMAIN loaded.Tables[id].Columns :
             LET col == loaded.Tables[id].Columns[c]
                 descs == RawDescriptions(id, c)
             IN  /\ col.Doc <=> IndexDocuments(id, c)
                 /\ col.Doc => \E d \in descs : NonEmptyString(d)
                 /\ (descs # {} /\ \A d \in descs : NonEmptyString(d)) => col.Doc
                 /\ col.Test <=>
                       \E n \in RawTests :
                          /\ IsColumnTest(n) /\ HasColumn(n)
                          /\ AttributedTable(n) = id
                          /\ ToLower(AttributedColumn(n)) = c
    /\ Reported =>
          /\ \A t \in BagToSet(report.tables) :
             \A cr \in BagToSet(t.columns) :
                cr.total = 1 /\ cr.covered \in {0, 1}
          /\ \A id \in DOMAIN catalog.Tables :
                \E t \in BagToSet(report.tables) :
                   /\ t.name = catalog.Tables[id].Name
                   /\ BagCardinality(t.columns)
                        = Cardinality(DOMAIN catalog.Tables[id].Columns)
                   /\ \A c \in DOMAIN catalog.Tables[id].Columns :
                         LET col == catalog.Tables[id].Columns[c]
                             flag == IF covType = "doc" THEN col.Doc ELSE col.Test
                         IN  [name |-> c, covered |-> IF flag THEN 1 ELSE 0,
                              total |-> 1,
                              coverage |-> IF flag THEN FloatDiv(1, 1) ELSE FloatZero]
                                \in BagToSet(t.columns)

\* C6 witness: a reported column that is documented, carries two test
\* declarations and is spelled in another case by the catalog
C6_Witness ==
    /\ Reported
    /\ \E id \in DOMAIN catalog.Tables :
       \E c \in DOMAIN catalog.Tables[id].Columns :
          /\ catalog.Tables[id].Columns[c].Doc
          /\ catalog.Tables[id].Columns[c].Test
          /\ id \in DOMAIN manifest.Tests
          /\ c \in DOMAIN manifest.Tests[id]
          /\ Len(manifest.Tests[id][c]) >= 2
          /\ \A n \in NonTestNodes : [name |-> c] \notin n.columns.cols

\* C7: the global covered and total of the report are the sums of those of
\* its tables, those of a table the sums of those of its columns, and
\* covered <= total at every level
C7_SumsAreExact ==
    /\ report.covered = BagSum(report.tables, "covered")
    /\ report.total = BagSum(report.tables, "total")
    /\ report.covered <= report.total
    /\ \A t \in BagToSet(report.tables) :
          /\ t.covered = BagSum(t.columns, "covered")
          /\ t.total = BagSum(t.columns, "total")
          /\ t.covered <= t.total
          /\ \A cr \in BagToSet(t.columns) : cr.covered <= cr.total

\* C7 witness: a report over two tables, some columns covered and some not
C7_Witness ==
    /\ Reported
    /\ BagCardinality(report.tables) >= 2
    /\ report.covered >= 1
    /\ report.covered < report.total
    /\ \E t \in BagToSet(report.tables) : t.covered >= 1 /\ t.total >= 2

\* the lowercased names of the columns a catalog node declares
DeclaredColumns(n) == {ToLower(c.name) : c \in n.columns.cols}

\* C8: every table of the reconciled catalog comes from a catalog node whose
\* identifier is not prefixed "test." and has exactly the lowercased columns
\* of that node; the total of the report counts those columns only; nodes
\* prefixed "test." neither become tables nor make the build fail
C8_CatalogIsTheUniverse ==
    /\ \A cat \in {loaded, catalog} :
       \A id \in DOMAIN cat.Tables :
          \E n \in NonTestNodes :
             /\ n.unique_id = JStr(id)
             /\ DOMAIN cat.Tables[id].Columns = DeclaredColumns(n)
    /\ (CatalogBuilt /\ \A n \in NonTestNodes :
                           /\ n.unique_id.t = "str"
                           /\ Cardinality(KindsDeclaring(n.unique_id.v)) = 1)
       => /\ FilesLoaded \/ pc = "annotate"
          /\ DOMAIN loaded.Tables = {n.unique_id.v : n \in NonTestNodes}
    /\ Reported =>
          \A t \in BagToSet(report.tables) :
             \E n \in NonTestNodes :
                /\ t.total = Cardinality(DeclaredColumns(n))
                /\ {cr.name : cr \in BagToSet(t.columns)} = DeclaredColumns(n)

\* C8 witness: a reported catalog built from documents in which the catalog
\* holds a "test." node and the manifest holds, for a table of the catalog,
\* a column and a test on a column that the catalog does not declare
C8_Witness ==
    /\ Reported
    /\ \E k \in DOMAIN catalogJSON.nodes : StartsWith(k, TestDot)
    /\ \E id \in DOMAIN catalog.Tables :
          /\ \E p \in Partitions :
                /\ id \in DOMAIN p
                /\ \E c \in DOMAIN p[id].columns.byName :
                      c \notin DOMAIN catalog.Tables[id].Columns
          /\ id \in DOMAIN manifest.Tests
          /\ \E c \in DOMAIN manifest.Tests[id] :
                c \notin DOMAIN catalog.Tables[id].Columns

\* ManifestFromNodes of the current run has returned
ManifestBuilt == pc \notin {"loadManifest", "manifestFromNodes"}

\* C4: a column test is recorded in the test index under the last entry of
\* depends_on.nodes when it is named "relationships" and under the first
\* entry otherwise, under no other table, and only the columns of that table
\* come out tested
C4_RelationshipsGoToLast ==
    /\ ManifestBuilt =>
          \A n \in RawTests :
             /\ (IsColumnTest(n) /\ HasColumn(n)) => KeysHolding(n) # {}
             /\ \A k \in KeysHolding(n) :
                   IsColumnTest(n) /\ k[1] = AttributedTable(n)
    /\ FilesLoaded =>
          \A id \in DOMAIN loaded.Tables :
          \A c \in DOMAIN loaded.Tables[id].Columns :
             loaded.Tables[id].Columns[c].Test =>
                \E n \in RawTests : IsColumnTest(n) /\ AttributedTable(n) = id

\* C4 witness: a relationships test on [m.a, m.b] recorded under m.b alone,
\* its column tested in m.b and not in m.a
C4_Witness ==
    /\ FilesLoaded
    /\ \E n \in RawTests :
          /\ n.test_metadata.name = JStr(Relationships)
          /\ n.depends_on.nodes = <<JStr(IdA), JStr(IdB)>>
          /\ KeysHolding(n) = {<<IdB, <<"c">>>>}
    /\ loaded.Tables[IdB].Columns[<<"c">>].Test
    /\ ~loaded.Tables[IdA].Columns[<<"c">>].Test

\* C5: a column test is recorded under the lowercased first non-empty string
\* among column_name, test_metadata.kwargs.column_name and
\* test_metadata.kwargs.arg, under no other column; with no such string it is
\* recorded nowhere and no column comes out tested because of it
C5_ColumnPriority ==
    /\ ManifestBuilt =>
          \A n \in RawTests :
             IF IsColumnTest(n) /\ HasColumn(n)
             THEN KeysHolding(n) =
                     {<<AttributedTable(n), ToLower(AttributedColumn(n))>>}
             ELSE KeysHolding(n) = {}
    /\ FilesLoaded =>
          \A id \in DOMAIN loaded.Tables :
          \A c \in DOMAIN loaded.Tables[id].Columns :
             loaded.Tables[id].Columns[c].Test =>
                \E n \in RawTests :
                   /\ IsColumnTest(n) /\ HasColumn(n)
                   /\ ToLower(AttributedColumn(n)) = c

\* C5 witness: a test with no usable column_name and no usable
\* kwargs.column_name whose kwargs.arg names the column, which comes out tested
C5_Witness ==
    /\ FilesLoaded
    /\ \E n \in RawTests :
          /\ n.column_name = JStr(<<>>)
          /\ n.test_metadata.kwargs.column_name = JOther
          /\ n.test_metadata.kwargs.arg = JStr(<<"G">>)
          /\ KeysHolding(n) = {<<IdA, <<"g">>>>}
    /\ loaded.Tables[IdA].Columns[<<"g">>].Test
    /\ ~loaded.Tables[IdA].Columns[<<"k">>].Test

\* the Filter step of the current run has run
Filtered ==
    \/ pc \in {"detailed", "json", "write"}
    \/ (pc = "done" /\ err \in {"", "aucune table apres filtrage",
                                 "json: unsupported value"})

\* the prefixes of --path_filter in the order `order` of their positions
Reordered(order) == [i \in DOMAIN order |-> modelPathFilter[order[i]]]

\* C10: with prefixes given, the filtered catalog holds exactly the tables
\* whose origin path starts with one of the prefixes (separators rewritten as
\* the host does), each as loadFiles returned it, and filtering by the same
\* prefixes in any other order gives the same catalog
C10_FilterKeepsMatches ==
    (Filtered /\ modelPathFilter # <<>>) =>
       /\ DOMAIN catalog.Tables =
             {id \in DOMAIN loaded.Tables :
                 \E i \in DOMAIN modelPathFilter :
                    StartsWith(ToSlash(loaded.Tables[id].OriginalFilePath),
                               ToSlash(modelPathFilter[i]))}
       /\ \A id \in DOMAIN catalog.Tables : catalog.Tables[id] = loaded.Tables[id]
       /\ \A order \in Perms(DOMAIN modelPathFilter) :
             FilterTables(loaded, Reordered(order)) = catalog

\* C10 witness: of the tables at m/r/a and m/s/b exactly the first is kept,
\* by the second of two prefixes
C10_Witness ==
    /\ Filtered
    /\ Len(modelPathFilter) = 2
    /\ DOMAIN loaded.Tables = {IdA, IdB}
    /\ loaded.Tables[IdA].OriginalFilePath = <<"m", "/", "r", "/", "a">>
    /\ loaded.Tables[IdB].OriginalFilePath = <<"m", "/", "s", "/", "b">>
    /\ modelPathFilter[2] = <<"m", "/", "r">>
    /\ ~StartsWith(loaded.Tables[IdA].OriginalFilePath, modelPathFilter[1])
    /\ DOMAIN catalog.Tables = {IdA}

\* a path with every separator, '\' as well as '/', written '/'
Canonical(p) == [i \in 1..Len(p) |-> IF p[i] = "\\" THEN "/" ELSE p[i]]

\* the origin path the manifest document gives for the table, "" when none
RawOriginPath(id) ==
    LET n == CHOOSE x \in RawTables(id) : TRUE
    IN  AsString(n.original_file_path)

\* C11: on every host the origin path of a table is held with '/' as its only
\* separator, and a table is kept by the filter as soon as its origin path,
\* separators rewritten to '/', starts with one of the prefixes, separators
\* rewritten to '/': m\r\a is kept by the prefix m/r
C11_SeparatorsAreCanonical ==
    /\ FilesLoaded =>
          \A id \in DOMAIN loaded.Tables :
             loaded.Tables[id].OriginalFilePath = Canonical(RawOriginPath(id))
    /\ (Filtered /\ modelPathFilter # <<>>) =>
          \A id \in DOMAIN loaded.Tables :
             (\E i \in DOMAIN modelPathFilter :
                 StartsWith(Canonical(RawOriginPath(id)),
                            Canonical(modelPathFilter[i])))
             => id \in DOMAIN catalog.Tables

\* the tables of the loaded catalog whose origin path starts with one of the
\* prefixes, separators rewritten as the host does
Matching ==
    {id \in DOMAIN loaded.Tables :
        \E i \in DOMAIN modelPathFilter :
           StartsWith(ToSlash(loaded.Tables[id].OriginalFilePath),
                      ToSlash(modelPathFilter[i]))}

\* doCompute has returned after loadFiles gave it a catalog
Computed ==
    pc = "done" /\ err \in {"", "aucune table apres filtrage",
                             "json: unsupported value"}

\* C12: once loadFiles has given a catalog, doCompute returns the error "no
\* table after filtering" iff a prefix was given and no table of the catalog
\* matches one; with no prefix given an empty catalog is no error, and the
\* report written has total 0, covered 0, coverage 0 and no table
C12_EmptyAfterFilterIsAnError ==
    Computed =>
       /\ err = "aucune table apres filtrage"
             <=> (modelPathFilter # <<>> /\ Matching = {})
       /\ (modelPathFilter = <<>> /\ DOMAIN loaded.Tables = {}) =>
             /\ err = ""
             /\ report.cov_type = covType
             /\ report.total = 0
             /\ report.covered = 0
             /\ report.coverage = FloatZero
             /\ report.tables = EmptyBag
             /\ detailed.CovType = covType
             /\ detailed.TableCount = 0

\* C12 witness: doCompute has returned the error for prefixes that match
\* neither of the two tables of the catalog, one of which has an origin path
C12_Witness ==
    /\ Computed
    /\ err = "aucune table apres filtrage"
    /\ modelPathFilter # <<>>
    /\ DOMAIN loaded.Tables = {IdA, IdB}
    /\ loaded.Tables[IdA].OriginalFilePath # <<>>
    /\ catalog = EmptyCatalog
    /\ report = NoReport

\* lower(schema) + "." + lower(name) of a node, a field that is no string
\* counting as ""
CanonicalName(n) ==
    ToLower(AsString(n.schema)) \o <<".">> \o ToLower(AsString(n.name))

\* the canonical names of the tables of a catalog, from the manifest document
CanonicalNames(cat) ==
    {CanonicalName(n) : n \in UNION {RawTables(id) : id \in DOMAIN cat.Tables}}

\* computeDetailedCoverage of the current run has returned
Detailed == pc \in {"json", "write"} \/ (pc = "done" /\ detailed # NoDetailed)

JSONEntry(t) == <<t.name, t.covered, t.total>>

\* the (name, covered, total) entry of a table of the console report
ConsoleEntry(t) == <<t.ModelName, t.Covered, t.Total>>

\* the console and the JSON report of the current run carry the same
\* multiset of (name, covered, total) entries, the same global covered and
\* total, the same coverage type and as many tables as the catalog
ReportsAgree ==
    /\ BagOfAll(ConsoleEntry, detailed.TableReports)
          = BagOfAll(JSONEntry, report.tables)
    /\ detailed.TotalCovered = report.covered
    /\ detailed.TotalColumns = report.total
    /\ detailed.CovType = report.cov_type
    /\ detailed.TableCount = BagCardinality(report.tables)
    /\ detailed.TableCount = Cardinality(DOMAIN catalog.Tables)

\* a step of computeDetailedCoverage or of computeJSONReport leaves the
\* catalog it reads, and the catalog loadFiles returned, as they were
ReportingKeepsCatalog ==
    (pc \in {"detailed", "json"}) => (catalog' = catalog /\ loaded' = loaded)

\* C14: whenever both reports of a run are computed they agree on the
\* multiset of (table name, covered, total), on the global covered and total
\* and on the coverage type, and computing them changes no catalog
C14_ReportsAgree ==
    [](Reported => ReportsAgree) /\ [][ReportingKeepsCatalog]_vars

\* C14 witness: both reports computed for the coverage type "test" over two
\* tables, one with a column that is documented and not tested, the two
\* tables differing in their entries
C14_Witness ==
    /\ Reported
    /\ covType = "test"
    /\ Cardinality(DOMAIN catalog.Tables) = 2
    /\ \E id \in DOMAIN catalog.Tables :
       \E c \in DOMAIN catalog.Tables[id].Columns :
          catalog.Tables[id].Columns[c].Doc /\ ~catalog.Tables[id].Columns[c].Test
    /\ \E t \in BagToSet(detailed.TableReports) : t.Covered >= 1
    /\ \E t \in BagToSet(detailed.TableReports) : t.Covered < t.Total
    /\ Cardinality(BagToSet(detailed.TableReports)) = 2

====
